---- MODULE Spec2Model ----
(***************************************************************************)
(* Model of the multi-page website checker                                 *)
(* (src/src/website_check/lambda_function.py).                             *)
(*                                                                         *)
(* Text.  A Python str is a sequence of tokens; a token is one character   *)
(* or an unbroken run of characters that none of the program's string      *)
(* tests can split ("https:", "www.keithfry.net", ".png", ...).  The       *)
(* tests of the code (startswith, in, strip, rstrip, rsplit, lower, +) are *)
(* the corresponding operations on token sequences.                        *)
(*                                                                         *)
(* Collaborators.  requests.get / requests.head / ses_client.send_email    *)
(* are not part of the program: every call's outcome is an input, either   *)
(* a response with a status code or an exception of some class.            *)
(***************************************************************************)
EXTENDS Integers, Sequences, FiniteSets, TLC

VARIABLES
    phase,        \* position of the function under check / of lambda_handler
    input,        \* arguments and collaborator answers of the call under check
    output,       \* what the call under check produced
    futures,      \* lambda_handler: per submitted page task, its outcome so far
    all_results,  \* lambda_handler: results collected from as_completed
    email,        \* the email collaborator: calls received, subject, outcome
    response      \* lambda_handler: the returned dict and how it was reached

vars == <<phase, input, output, futures, all_results, email, response>>

-----------------------------------------------------------------------------
(* Bounds of the checked input spaces *)

MaxImgs == 2
MaxLinks == 2
MaxMatches == 2

-----------------------------------------------------------------------------
(* Configuration *)

TARGET_IP == <<"3.23.206.196">>

WEBSITE_URL == <<"https:", "/", "/", "www.keithfry.net">>

PAGES_TO_CHECK ==
    << <<"/">>, <<"/", "resume">>, <<"/", "services", "/">>, <<"/", "maker", "/">> >>

IMAGE_EXTS == { <<".jpg">>, <<".jpeg">>, <<".png">>, <<".gif">>, <<".svg">>, <<".webp">> }

-----------------------------------------------------------------------------
(* str operations *)

EmptyStr == << >>

Whitespace == {" ", "\t", "\n"}

StartsWith(s, prefix) ==
    /\ Len(s) >= Len(prefix)
    /\ SubSeq(s, 1, Len(prefix)) = prefix

\* needle in s
Contains(s, needle) ==
    \E i \in 0..(Len(s) - Len(needle)) : SubSeq(s, i + 1, i + Len(needle)) = needle

RECURSIVE RStrip(_, _)
RStrip(s, chars) ==
    IF s # EmptyStr /\ s[Len(s)] \in chars
    THEN RStrip(SubSeq(s, 1, Len(s) - 1), chars)
    ELSE s

RECURSIVE LStrip(_, _)
LStrip(s, chars) ==
    IF s # EmptyStr /\ s[1] \in chars
    THEN LStrip(Tail(s), chars)
    ELSE s

\* s.strip()
Strip(s) == RStrip(LStrip(s, Whitespace), Whitespace)

LowerToken(t) ==
    CASE t = ".PNG" -> ".png"
      [] t = ".JPG" -> ".jpg"
      [] t = "IMG"  -> "img"
      [] OTHER      -> t

\* s.lower()
Lower(s) == [i \in 1..Len(s) |-> LowerToken(s[i])]

\* s.rsplit('/', 1)[0]
RSplitHead(s) ==
    LET slashes == {i \in 1..Len(s) : s[i] = "/"}
    IN  IF slashes = {} THEN s
        ELSE SubSeq(s, 1, (CHOOSE i \in slashes : \A j \in slashes : j <= i) - 1)

-----------------------------------------------------------------------------
(* Outcomes of a call: a returned value, or an exception of class exc *)

Return(v) == [exc |-> "none", value |-> v]

Raise(e, dflt) == [exc |-> e, value |-> dflt]

\* An HTTP collaborator answer: a response with a status code, or an exception.
\* "RequestException" is requests.RequestException or a subclass of it,
\* "Exception" any other subclass of Exception, raised with a message,
\* "BareException" one raised without arguments (MemoryError(), a failed assert).
HttpResponse(code) == [exc |-> "none", status_code |-> code]

HttpRaises(e) == [exc |-> e, status_code |-> 0]

\* response.raise_for_status(): HTTPError (a RequestException) for 4xx and 5xx
RaiseForStatus(resp) ==
    IF resp.exc # "none" THEN resp.exc
    ELSE IF resp.status_code >= 400 /\ resp.status_code < 600 THEN "RequestException"
    ELSE "none"

-----------------------------------------------------------------------------
(* is_image_broken *)

probe_url_slash_first(image_url) ==
    IF StartsWith(image_url, <<"/">>) THEN RStrip(WEBSITE_URL, {"/"}) \o image_url
    ELSE IF StartsWith(image_url, <<"/", "/">>) THEN <<"https:">> \o image_url
    ELSE image_url

\* The address handed to requests.head
probe_url(image_url) ==
    IF StartsWith(image_url, <<"/", "/">>) THEN <<"https:">> \o image_url
    ELSE IF StartsWith(image_url, <<"/">>) THEN RStrip(WEBSITE_URL, {"/"}) \o image_url
    ELSE image_url

is_image_broken_gt(image_url, head) ==
    IF head.exc = "RequestException" THEN Return(TRUE)
    ELSE IF head.exc # "none" THEN Raise(head.exc, FALSE)
    ELSE Return(head.status_code > 400)

\* head is the outcome of requests.head(probe_url(image_url), ...)
is_image_broken(image_url, head) ==
    IF head.exc = "RequestException" THEN Return(TRUE)
    ELSE IF head.exc # "none" THEN Raise(head.exc, FALSE)
    ELSE Return(head.status_code >= 400)


-----------------------------------------------------------------------------
(* extract_css_links *)

\* urls_to_check of lambda_handler
urls_to_check ==
    [i \in 1..Len(PAGES_TO_CHECK) |-> RStrip(WEBSITE_URL, {"/"}) \o PAGES_TO_CHECK[i]]

\* href.startswith('http')
StartsWithHttp(href) == href # EmptyStr /\ href[1] \in {"http:", "https:"}

\* "Convert to absolute URL"
absolute_href(href, page_url) ==
    IF StartsWith(href, <<"/", "/">>) THEN <<"https:">> \o href
    ELSE IF StartsWith(href, <<"/">>) THEN RStrip(WEBSITE_URL, {"/"}) \o href
    ELSE IF ~StartsWithHttp(href) THEN RSplitHead(page_url) \o <<"/">> \o href
    ELSE href

\* "Only include CSS from our domain"
is_local_css(href) == StartsWith(href, WEBSITE_URL)

\* hrefs: link.get('href', '') of every <link rel="stylesheet">, in document order
RECURSIVE extract_css_links(_, _)
extract_css_links(hrefs, page_url) ==
    IF hrefs = << >> THEN << >>
    ELSE LET href == Head(hrefs)
             rest == extract_css_links(Tail(hrefs), page_url)
         IN  IF href = EmptyStr THEN rest
             ELSE IF is_local_css(absolute_href(href, page_url))
                  THEN <<absolute_href(href, page_url)>> \o rest
                  ELSE rest

-----------------------------------------------------------------------------
(* check_css_file *)

is_image_like_any(url) == TRUE

\* any(ext in url.lower() for ext in [...])
is_image_like(url) == \E ext \in IMAGE_EXTS : Contains(Lower(url), ext)

\* The loop over matches.  acc.probed lists the arguments of the is_image_broken
\* calls made so far; acc.exc is the exception that ended the loop, if any.
RECURSIVE css_scan(_, _)
css_scan(matches, acc) ==
    IF matches = << >> THEN acc
    ELSE LET url == Strip(Head(matches).capture)
             a1  == IF Contains(url, TARGET_IP)
                    THEN [acc EXCEPT !.ip_urls = Append(@, url)]
                    ELSE acc
         IN  IF ~is_image_like(url) THEN css_scan(Tail(matches), a1)
             ELSE LET r  == is_image_broken(url, Head(matches).head)
                      a2 == [a1 EXCEPT !.probed = Append(@, url)]
                  IN  IF r.exc # "none" THEN [a2 EXCEPT !.exc = r.exc]
                      ELSE IF r.value
                           THEN css_scan(Tail(matches),
                                         [a2 EXCEPT !.broken_urls = Append(@, url)])
                           ELSE css_scan(Tail(matches), a2)

CssScanStart == [ip_urls |-> << >>, broken_urls |-> << >>, probed |-> << >>, exc |-> "none"]

\* css: the answers of the collaborators for this file: css.get the outcome of
\* requests.get(css_url), css.matches the re.findall captures of its text, each
\* with the outcome of the probe of that reference
css_run(css_url, css) ==
    IF RaiseForStatus(css.get) # "none"
    THEN [CssScanStart EXCEPT !.exc = RaiseForStatus(css.get)]
    ELSE css_scan(css.matches, CssScanStart)

check_css_file_partial(css_url, css) ==
    [ip_urls     |-> css_run(css_url, css).ip_urls,
     broken_urls |-> css_run(css_url, css).broken_urls]

check_css_file(css_url, css) ==
    LET run == css_run(css_url, css)
    IN  IF run.exc # "none"
        THEN [ip_urls |-> << >>, broken_urls |-> << >>]
        ELSE [ip_urls |-> run.ip_urls, broken_urls |-> run.broken_urls]

-----------------------------------------------------------------------------
(* check_page *)

\* an optional str: None, or a str
PyNone == [is_none |-> TRUE, str |-> EmptyStr]

PyStr(s) == [is_none |-> FALSE, str |-> s]

\* str(e): the message of the exception, empty for one raised without arguments
ExcStr(exc) == IF exc = "BareException" THEN EmptyStr ELSE <<exc>>

stored_src_probe_url(src) == probe_url(src)

\* the string check_page appends for an image whose src attribute is src
stored_src(src) == src

RECURSIVE img_scan_elif(_, _)
img_scan_elif(imgs, acc) ==
    IF imgs = << >> THEN acc
    ELSE LET src == Head(imgs).src
             r   == is_image_broken(src, Head(imgs).head)
         IN  IF Contains(src, TARGET_IP)
             THEN img_scan_elif(Tail(imgs), [acc EXCEPT !.ip_images = Append(@, src)])
             ELSE IF r.exc # "none"
                  THEN [acc EXCEPT !.probed = Append(@, src), !.exc = r.exc]
                  ELSE IF r.value
                       THEN img_scan_elif(Tail(imgs),
                                          [acc EXCEPT !.probed = Append(@, src),
                                                      !.broken_images = Append(@, src)])
                       ELSE img_scan_elif(Tail(imgs), [acc EXCEPT !.probed = Append(@, src)])

\* The loop over images.  acc.probed lists the arguments of the is_image_broken
\* calls made so far; acc.exc is the exception that ended the loop, if any.
RECURSIVE img_scan(_, _)
img_scan(imgs, acc) ==
    IF imgs = << >> THEN acc
    ELSE LET src == Head(imgs).src
             a1  == IF Contains(src, TARGET_IP)
                    THEN [acc EXCEPT !.ip_images = Append(@, stored_src(src))]
                    ELSE acc
             r   == is_image_broken(src, Head(imgs).head)
             a2  == [a1 EXCEPT !.probed = Append(@, src)]
         IN  IF r.exc # "none" THEN [a2 EXCEPT !.exc = r.exc]
             ELSE IF r.value
                  THEN img_scan(Tail(imgs),
                                [a2 EXCEPT !.broken_images = Append(@, stored_src(src))])
                  ELSE img_scan(Tail(imgs), a2)

ImgScanStart == [ip_images |-> << >>, broken_images |-> << >>, probed |-> << >>, exc |-> "none"]

\* The loop over css_urls; css[k] holds the collaborators' answers for the k-th file
RECURSIVE css_loop(_, _, _)
css_loop(css_urls, css, acc) ==
    IF css_urls = << >> THEN acc
    ELSE LET css_result == check_css_file(Head(css_urls), Head(css))
         IN  css_loop(Tail(css_urls), Tail(css),
                      [css_ip_urls     |-> acc.css_ip_urls \o css_result.ip_urls,
                       css_broken_urls |-> acc.css_broken_urls \o css_result.broken_urls])

CssLoopStart == [css_ip_urls |-> << >>, css_broken_urls |-> << >>]

ErrorResult(page_url, exc) ==
    [url               |-> page_url,
     status            |-> "error",
     total_images      |-> 0,
     ip_images         |-> << >>,
     broken_images     |-> << >>,
     css_files_checked |-> 0,
     css_ip_urls       |-> << >>,
     css_broken_urls   |-> << >>,
     error             |-> PyStr(ExcStr(exc))]

page_except_requests_only(page_url, exc) ==
    IF exc = "RequestException"
    THEN Return(ErrorResult(page_url, exc))
    ELSE Raise(exc, ErrorResult(page_url, exc))

\* except Exception as e: ...
page_except(page_url, exc) == Return(ErrorResult(page_url, exc))

\* the arguments of the is_image_broken calls check_page makes for the page's images
page_probes(page_url, w) ==
    IF RaiseForStatus(w.get) # "none" THEN << >>
    ELSE img_scan(w.imgs, ImgScanStart).probed

\* w: the answers of the collaborators during this scan: w.get the outcome of
\* requests.get(page_url) and of parsing its text, w.imgs the img elements (src,
\* and the outcome of the probe of it), w.hrefs the stylesheet links, w.css the
\* answers for the stylesheets fetched, in the order they are fetched
check_page(page_url, w) ==
    IF RaiseForStatus(w.get) # "none" THEN page_except(page_url, RaiseForStatus(w.get))
    ELSE LET scan == img_scan(w.imgs, ImgScanStart)
         IN  IF scan.exc # "none" THEN page_except(page_url, scan.exc)
             ELSE LET css_urls == extract_css_links(w.hrefs, page_url)
                      found    == css_loop(css_urls, w.css, CssLoopStart)
                  IN  Return([url               |-> page_url,
                              status            |-> "success",
                              total_images      |-> Len(w.imgs),
                              ip_images         |-> scan.ip_images,
                              broken_images     |-> scan.broken_images,
                              css_files_checked |-> Len(css_urls),
                              css_ip_urls       |-> found.css_ip_urls,
                              css_broken_urls   |-> found.css_broken_urls,
                              error             |-> PyNone])

-----------------------------------------------------------------------------
(* send_summary_email *)

RECURSIVE SumOf(_)
SumOf(ns) == IF ns = << >> THEN 0 ELSE Head(ns) + SumOf(Tail(ns))

failed_pages(results) == SelectSeq(results, LAMBDA r : r.status = "error")

\* [r for r in all_results if r['status'] == 'success' and r[field]]
pages_with(results, field) ==
    SelectSeq(results, LAMBDA r : r.status = "success" /\ r[field] # << >>)

\* sum(len(r[field]) for r in pages)
total_of(pages, field) == SumOf([i \in 1..Len(pages) |-> Len(pages[i][field])])

should_send_findings_only(results) ==
    \/ pages_with(results, "broken_images") # << >>
    \/ pages_with(results, "ip_images") # << >>
    \/ pages_with(results, "css_broken_urls") # << >>
    \/ pages_with(results, "css_ip_urls") # << >>

\* "Only send email if there are issues"
should_send(results) ==
    \/ pages_with(results, "broken_images") # << >>
    \/ pages_with(results, "ip_images") # << >>
    \/ pages_with(results, "css_broken_urls") # << >>
    \/ pages_with(results, "css_ip_urls") # << >>
    \/ failed_pages(results) # << >>

\* f"{count} {label}"
Issue(count, label) == <<count, label>>

subject_issues_pages(results) ==
    (IF pages_with(results, "broken_images") # << >>
     THEN <<Issue(Len(pages_with(results, "broken_images")), "Broken Images")>>
     ELSE << >>)
    \o (IF pages_with(results, "ip_images") # << >>
        THEN <<Issue(Len(pages_with(results, "ip_images")), "IP-Based Images")>>
        ELSE << >>)
    \o (IF pages_with(results, "css_broken_urls") # << >>
        THEN <<Issue(Len(pages_with(results, "css_broken_urls")), "CSS Broken URLs")>>
        ELSE << >>)
    \o (IF pages_with(results, "css_ip_urls") # << >>
        THEN <<Issue(Len(pages_with(results, "css_ip_urls")), "CSS IP-Based URLs")>>
        ELSE << >>)
    \o (IF failed_pages(results) # << >>
        THEN <<Issue(Len(failed_pages(results)), "Failed Pages")>>
        ELSE << >>)

\* "Build subject": the issues joined by ', ' between "Website Alert:" and "Found"
subject_issues(results) ==
    (IF pages_with(results, "broken_images") # << >>
     THEN <<Issue(total_of(pages_with(results, "broken_images"), "broken_images"),
                  "Broken Images")>>
     ELSE << >>)
    \o (IF pages_with(results, "ip_images") # << >>
        THEN <<Issue(total_of(pages_with(results, "ip_images"), "ip_images"),
                     "IP-Based Images")>>
        ELSE << >>)
    \o (IF pages_with(results, "css_broken_urls") # << >>
        THEN <<Issue(total_of(pages_with(results, "css_broken_urls"), "css_broken_urls"),
                     "CSS Broken URLs")>>
        ELSE << >>)
    \o (IF pages_with(results, "css_ip_urls") # << >>
        THEN <<Issue(total_of(pages_with(results, "css_ip_urls"), "css_ip_urls"),
                     "CSS IP-Based URLs")>>
        ELSE << >>)
    \o (IF failed_pages(results) # << >>
        THEN <<Issue(Len(failed_pages(results)), "Failed Pages")>>
        ELSE << >>)

\* "Aggregate results": the SUMMARY figures of the message body
email_summary(results) ==
    [total_pages      |-> Len(results),
     successful_pages |-> Len(SelectSeq(results, LAMBDA r : r.status = "success")),
     failed_pages     |-> Len(failed_pages(results)),
     total_images     |-> SumOf([i \in 1..Len(results) |->
                                    IF results[i].status = "success"
                                    THEN results[i].total_images ELSE 0]),
     total_css_files  |-> SumOf([i \in 1..Len(results) |->
                                    IF results[i].status = "success"
                                    THEN results[i].css_files_checked ELSE 0]),
     total_broken     |-> total_of(pages_with(results, "broken_images"), "broken_images"),
     total_ip         |-> total_of(pages_with(results, "ip_images"), "ip_images"),
     total_css_broken |-> total_of(pages_with(results, "css_broken_urls"), "css_broken_urls"),
     total_css_ip     |-> total_of(pages_with(results, "css_ip_urls"), "css_ip_urls")]

\* no message: no figures
NoSummary ==
    [total_pages |-> 0, successful_pages |-> 0, failed_pages |-> 0, total_images |-> 0,
     total_css_files |-> 0, total_broken |-> 0, total_ip |-> 0, total_css_broken |-> 0,
     total_css_ip |-> 0]

\* ses: the outcome of ses_client.send_email: "MessageId" (delivered),
\* "ClientError", or "BotoCoreError" (an exception of botocore that is no
\* ClientError: no credentials, endpoint unreachable, ...).
\* Returns the calls made to the collaborator, the subject handed to it, and the
\* exception that leaves send_summary_email, if any.
send_summary_email(results, ses) ==
    IF ~should_send(results)
    THEN [exc |-> "none", calls |-> 0, subject |-> << >>, outcome |-> "none",
          summary |-> NoSummary]
    ELSE [exc     |-> IF ses \in {"MessageId", "ClientError"} THEN "none" ELSE ses,
          calls   |-> 1,
          subject |-> subject_issues(results),
          outcome |-> ses,
          summary |-> email_summary(results)]

-----------------------------------------------------------------------------
(* lambda_handler *)

loop_finished_first(fs) == \E i \in DOMAIN fs : fs[i].state = "collected"

\* the for loop over as_completed(future_to_url) has consumed every future
loop_finished(fs) == \A i \in DOMAIN fs : fs[i].state = "collected"

handler_response_strict(results) ==
    [statusCode            |-> IF failed_pages(results) # << >> THEN 500 ELSE 200,
     status                |-> IF failed_pages(results) # << >> THEN "ERROR" ELSE "COMPLETE",
     pages_checked         |-> Len(results),
     pages_failed          |-> Len(failed_pages(results)),
     total_broken_images   |-> total_of(results, "broken_images"),
     total_ip_images       |-> total_of(results, "ip_images"),
     total_css_broken_urls |-> total_of(results, "css_broken_urls"),
     total_css_ip_urls     |-> total_of(results, "css_ip_urls")]

handler_response_copy_paste(results) ==
    [statusCode            |-> 200,
     status                |-> "COMPLETE",
     pages_checked         |-> Len(results),
     pages_failed          |-> Len(SelectSeq(results, LAMBDA r : r.status = "error")),
     total_broken_images   |-> total_of(results, "broken_images"),
     total_ip_images       |-> total_of(results, "broken_images"),
     total_css_broken_urls |-> total_of(results, "css_broken_urls"),
     total_css_ip_urls     |-> total_of(results, "css_ip_urls")]

\* "Count totals for response" and the returned dict
handler_response(results) ==
    [statusCode            |-> 200,
     status                |-> "COMPLETE",
     pages_checked         |-> Len(results),
     pages_failed          |-> Len(SelectSeq(results, LAMBDA r : r.status = "error")),
     total_broken_images   |-> total_of(results, "broken_images"),
     total_ip_images       |-> total_of(results, "ip_images"),
     total_css_broken_urls |-> total_of(results, "css_broken_urls"),
     total_css_ip_urls     |-> total_of(results, "css_ip_urls")]

\* except Exception as e: the returned dict
handler_error(exc) ==
    [statusCode |-> 500,
     status     |-> "ERROR",
     message    |-> <<"Unexpected error: ">> \o ExcStr(exc)]

-----------------------------------------------------------------------------
(* Values of the variables a specification does not use *)

NoFutures == << >>

NoResults == << >>

NoEmail == [calls |-> 0, subject |-> << >>, outcome |-> "none", summary |-> NoSummary]

NoResponse == [raised |-> "none", exc |-> "none", body |-> [statusCode |-> 0]]

Unused == [none |-> TRUE]

HandlerIdle ==
    /\ futures = NoFutures
    /\ all_results = NoResults
    /\ email = NoEmail
    /\ response = NoResponse

-----------------------------------------------------------------------------
(* Input spaces *)

\* Resource references as they appear in markup
Refs ==
    { EmptyStr,
      <<"/", "img", "/", "a", ".png">>,
      <<"/", "/", "cdn.example.com", "/", "b", ".jpg">>,
      <<"https:", "/", "/", "www.keithfry.net", "/", "c", ".gif">>,
      <<"http:", "/", "/", "3.23.206.196", "/", "d", ".png">>,
      <<"img", "/", "e", ".svg">> }

StatusCodes == {101, 200, 204, 302, 399, 400, 404, 500, 503}

HeadOutcomes ==
    {HttpResponse(c) : c \in StatusCodes}
        \cup {HttpRaises("RequestException"), HttpRaises("Exception")}

-----------------------------------------------------------------------------
(* SpecProbe: is_image_broken applied to every reference and probe outcome *)

InitProbe ==
    /\ phase = "call"
    /\ input \in [image_url : Refs, head : HeadOutcomes]
    /\ output = Unused
    /\ HandlerIdle

CallIsImageBroken ==
    /\ phase = "call"
    /\ phase' = "done"
    /\ output' = [url |-> probe_url(input.image_url),
                  ret |-> is_image_broken(input.image_url, input.head)]
    /\ UNCHANGED <<input, futures, all_results, email, response>>

NextProbe == CallIsImageBroken

SpecProbe == InitProbe /\ [][NextProbe]_vars

\* C5 (as claimed): is_image_broken returns true whenever the probe ends with a
\* status >= 400 or a connection error, and returns false only when the final
\* status is in 200..399.
C5_FalseOnlyIn200To399 ==
    phase = "done" =>
        /\ (input.head.exc = "RequestException"
              \/ (input.head.exc = "none" /\ input.head.status_code >= 400))
           => (output.ret.exc = "none" /\ output.ret.value = TRUE)
        /\ (output.ret.exc = "none" /\ output.ret.value = FALSE)
           => (input.head.exc = "none"
                 /\ input.head.status_code >= 200 /\ input.head.status_code <= 399)

\* C5 (amended): is_image_broken returns true whenever the probe ends with a
\* status >= 400 or a connection error, and returns false exactly when the probe
\* ends with a status below 400, a status below 200 included.
C5_FalseExactlyBelow400 ==
    phase = "done" =>
        /\ (input.head.exc = "RequestException"
              \/ (input.head.exc = "none" /\ input.head.status_code >= 400))
           => (output.ret.exc = "none" /\ output.ret.value = TRUE)
        /\ (output.ret.exc = "none" /\ output.ret.value = FALSE)
           <=> (input.head.exc = "none" /\ input.head.status_code < 400)

\* a probe that ended with an informational status was reported reachable
C5_Witness ==
    /\ phase = "done"
    /\ input.head.exc = "none"
    /\ input.head.status_code < 200
    /\ output.ret = Return(FALSE)

\* C13: a reference starting with '//' is probed as 'https:' followed by the
\* reference; one starting with a single '/' is probed as the base address,
\* trailing slash stripped, followed by the reference; any other reference is
\* probed unchanged.  The '//' rule takes precedence over the '/' rule.
C13_ProbedAddress ==
    phase = "done" =>
        output.url =
            IF Len(input.image_url) >= 2 /\ input.image_url[1] = "/" /\ input.image_url[2] = "/"
            THEN <<"https:">> \o input.image_url
            ELSE IF Len(input.image_url) >= 1 /\ input.image_url[1] = "/"
                 THEN <<"https:", "/", "/", "www.keithfry.net">> \o input.image_url
                 ELSE input.image_url

\* a protocol-relative reference was probed over https, not under the base address
C13_Witness ==
    /\ phase = "done"
    /\ Len(input.image_url) >= 2
    /\ input.image_url[1] = "/"
    /\ input.image_url[2] = "/"
    /\ output.url[1] = "https:"
    /\ output.url[4] # "www.keithfry.net"

-----------------------------------------------------------------------------
(* SpecCss: extract_css_links applied to every list of stylesheet links *)

Range(seq) == {seq[i] : i \in 1..Len(seq)}

SeqsUpTo(S, n) == UNION {[1..k -> S] : k \in 0..n}

Hrefs ==
    { EmptyStr,
      <<"/", "css", "/", "main", ".css">>,
      <<"/", "/", "fonts.example.com", "/", "f", ".css">>,
      <<"/", "/", "www.keithfry.net", ".evil.example", "/", "x", ".css">>,
      <<"https:", "/", "/", "www.keithfry.net", "/", "a", ".css">>,
      <<"https:", "/", "/", "www.keithfry.net", ".evil.example", "/", "x", ".css">>,
      <<"https:", "/", "/", "cdn.example.com", "/", "b", ".css">>,
      <<"style", ".css">> }

InitCss ==
    /\ phase = "call"
    /\ input \in [hrefs : SeqsUpTo(Hrefs, MaxLinks), page_url : Range(urls_to_check)]
    /\ output = Unused
    /\ HandlerIdle

CallExtractCssLinks ==
    /\ phase = "call"
    /\ phase' = "done"
    /\ output' = [css_urls |-> extract_css_links(input.hrefs, input.page_url)]
    /\ UNCHANGED <<input, futures, all_results, email, response>>

NextCss == CallExtractCssLinks

SpecCss == InitCss /\ [][NextCss]_vars

\* the host of an absolute address scheme://host/path
HostOf(u) ==
    LET rest    == SubSeq(u, 4, Len(u))
        slashes == {i \in 1..Len(rest) : rest[i] = "/"}
    IN  IF slashes = {} THEN rest
        ELSE SubSeq(rest, 1, (CHOOSE i \in slashes : \A j \in slashes : i <= j) - 1)

\* C6: a stylesheet href that, after normalization, resolves to a host other
\* than the host of WEBSITE_URL is never in the list extract_css_links returns.
C6_OtherHostsExcluded ==
    phase = "done" =>
        \A i \in 1..Len(input.hrefs) :
            (/\ input.hrefs[i] # EmptyStr
             /\ HostOf(absolute_href(input.hrefs[i], input.page_url)) # HostOf(WEBSITE_URL))
            => absolute_href(input.hrefs[i], input.page_url) \notin Range(output.css_urls)

-----------------------------------------------------------------------------
(* SpecCssFile: check_css_file applied to every stylesheet *)

Captures ==
    { <<"img", "/", "x", ".jpg">>,
      <<" ", "/", "img", "/", "y", ".png", " ">>,
      <<"fonts", "/", "y", ".woff">>,
      <<"http:", "/", "/", "3.23.206.196", "/", "f", ".woff">>,
      <<"http:", "/", "/", "3.23.206.196", "/", "z", ".PNG">> }

CssHeads ==
    { HttpResponse(200), HttpResponse(404),
      HttpRaises("RequestException"), HttpRaises("Exception") }

CssGets == { HttpResponse(200), HttpResponse(404), HttpRaises("RequestException") }

LocalCssUrl == <<"https:", "/", "/", "www.keithfry.net", "/", "css", "/", "main", ".css">>

InitCssFile ==
    /\ phase = "call"
    /\ input \in [css_url : {LocalCssUrl},
                  css     : [get     : CssGets,
                             matches : SeqsUpTo([capture : Captures, head : CssHeads],
                                                MaxMatches)]]
    /\ output = Unused
    /\ HandlerIdle

CallCheckCssFile ==
    /\ phase = "call"
    /\ phase' = "done"
    /\ output' = [ret    |-> check_css_file(input.css_url, input.css),
                  probed |-> css_run(input.css_url, input.css).probed,
                  exc    |-> css_run(input.css_url, input.css).exc]
    /\ UNCHANGED <<input, futures, all_results, email, response>>

NextCssFile == CallCheckCssFile

SpecCssFile == InitCssFile /\ [][NextCssFile]_vars

\* a capture whose lowercased text contains none of the image extensions
NonImage(capture) ==
    \A ext \in { <<".jpg">>, <<".jpeg">>, <<".png">>, <<".gif">>, <<".svg">>, <<".webp">> } :
        \A i \in 1..Len(capture) : LowerToken(capture[i]) # ext[1]

\* C8 (as claimed): a url(...) reference without an image extension is never
\* probed and is added to neither the flagged nor the broken list.
C8_NonImageInNeitherList ==
    phase = "done" =>
        \A j \in 1..Len(input.css.matches) :
            NonImage(input.css.matches[j].capture) =>
                /\ Strip(input.css.matches[j].capture) \notin Range(output.probed)
                /\ Strip(input.css.matches[j].capture) \notin Range(output.ret.broken_urls)
                /\ Strip(input.css.matches[j].capture) \notin Range(output.ret.ip_urls)

\* C8 (amended): a url(...) reference without an image extension is never
\* probed and never added to the broken list; it is added to the flagged list
\* exactly when it contains the target IP and the scan of the file completes.
C8_NonImageNeverProbed ==
    phase = "done" =>
        \A j \in 1..Len(input.css.matches) :
            NonImage(input.css.matches[j].capture) =>
                /\ Strip(input.css.matches[j].capture) \notin Range(output.probed)
                /\ Strip(input.css.matches[j].capture) \notin Range(output.ret.broken_urls)
                /\ Strip(input.css.matches[j].capture) \in Range(output.ret.ip_urls)
                   <=> (/\ output.exc = "none"
                        /\ \E k \in 1..Len(input.css.matches[j].capture) :
                               input.css.matches[j].capture[k] = "3.23.206.196")

\* a font reference holding the target IP was flagged, unprobed, next to a probed image
C8_Witness ==
    /\ phase = "done"
    /\ output.probed # << >>
    /\ \E j \in 1..Len(input.css.matches) :
           /\ NonImage(input.css.matches[j].capture)
           /\ input.css.matches[j].capture \in Range(output.ret.ip_urls)
           /\ input.css.matches[j].capture \notin Range(output.probed)

-----------------------------------------------------------------------------
(* SpecPage: check_page applied to every page and collaborator behaviour *)

PageSrcs ==
    { EmptyStr,
      <<"/", "img", "/", "a", ".png">>,
      <<"http:", "/", "/", "3.23.206.196", "/", "d", ".png">> }

PageHeads == { HttpResponse(200), HttpResponse(404), HttpRaises("Exception") }

PageHrefs ==
    { <<"/", "css", "/", "main", ".css">>,
      <<"/", "/", "fonts.example.com", "/", "f", ".css">> }

\* a stylesheet whose fetch fails
CssUnreachable == [get |-> HttpResponse(404), matches |-> << >>]

\* a stylesheet with a padded reference to a broken image at the target IP and a
\* font at the target IP
CssWithFindings ==
    [get     |-> HttpResponse(200),
     matches |-> << [capture |-> <<" ", "http:", "/", "/", "3.23.206.196", "/", "z", ".PNG", " ">>,
                     head    |-> HttpResponse(404)],
                    [capture |-> <<"http:", "/", "/", "3.23.206.196", "/", "f", ".woff">>,
                     head    |-> HttpResponse(200)] >>]

\* a stylesheet whose second probe raises something that is no RequestException
CssProbeRaises ==
    [get     |-> HttpResponse(200),
     matches |-> << [capture |-> <<"http:", "/", "/", "3.23.206.196", "/", "z", ".PNG">>,
                     head    |-> HttpResponse(200)],
                    [capture |-> <<"img", "/", "x", ".jpg">>,
                     head    |-> HttpRaises("Exception")] >>]

PageCss == { CssUnreachable, CssWithFindings, CssProbeRaises }

PageLinks ==
    UNION { { [hrefs |-> h, css |-> c] : h \in [1..n -> PageHrefs], c \in [1..n -> PageCss] }
            : n \in 0..MaxLinks }

\* pages that are fetched and parsed
PagesFetched ==
    { [get |-> g, imgs |-> im, hrefs |-> l.hrefs, css |-> l.css] :
          g \in {HttpResponse(200)},
          im \in SeqsUpTo([src : PageSrcs, head : PageHeads], MaxImgs),
          l \in PageLinks }

\* pages whose fetch or parse fails
PagesFailing ==
    { [get |-> g, imgs |-> << >>, hrefs |-> << >>, css |-> << >>] :
          g \in { HttpResponse(404), HttpResponse(500),
                  HttpRaises("RequestException"), HttpRaises("Exception"),
                  HttpRaises("BareException") } }

InitPage ==
    /\ phase = "call"
    /\ input \in [page_url : {urls_to_check[2]}, w : PagesFetched \cup PagesFailing]
    /\ output = Unused
    /\ HandlerIdle

CallCheckPage ==
    /\ phase = "call"
    /\ phase' = "done"
    /\ output' = [ret    |-> check_page(input.page_url, input.w),
                  probed |-> page_probes(input.page_url, input.w)]
    /\ UNCHANGED <<input, futures, all_results, email, response>>

NextPage == CallCheckPage

SpecPage == InitPage /\ [][NextPage]_vars

\* C1: check_page never raises: whatever the page GET, a probe or a CSS step
\* does, it returns a result whose status is 'success' or 'error'.
C1_CheckPageNeverRaises ==
    phase = "done" =>
        /\ output.ret.exc = "none"
        /\ output.ret.value.status \in {"success", "error"}

\* a probe raised something that is no RequestException and the page came back as an error
C1_Witness ==
    /\ phase = "done"
    /\ RaiseForStatus(input.w.get) = "none"
    /\ \E i \in 1..Len(input.w.imgs) : input.w.imgs[i].head.exc = "Exception"
    /\ output.ret.exc = "none"
    /\ output.ret.value.status = "error"

\* the src attributes of the page's images
PageSrcSet == {input.w.imgs[i].src : i \in 1..Len(input.w.imgs)}

\* the url(...) captures of the page's stylesheets
PageCaptureSet ==
    UNION { {input.w.css[k].matches[j].capture : j \in 1..Len(input.w.css[k].matches)}
            : k \in 1..Len(input.w.css) }

\* C7 (as claimed): every string stored in ip_images, broken_images, css_ip_urls
\* or css_broken_urls is exactly the reference as it was extracted (the img src
\* attribute or the url(...) capture), with no rewriting.
C7_StoredAsExtracted ==
    phase = "done" =>
        /\ Range(output.ret.value.ip_images) \subseteq PageSrcSet
        /\ Range(output.ret.value.broken_images) \subseteq PageSrcSet
        /\ Range(output.ret.value.css_ip_urls) \subseteq PageCaptureSet
        /\ Range(output.ret.value.css_broken_urls) \subseteq PageCaptureSet

\* C7 (amended): every string stored in ip_images or broken_images is exactly
\* the img src attribute, and every string stored in css_ip_urls or
\* css_broken_urls is the url(...) capture with its leading and trailing
\* whitespace stripped; the address normalization of the probe is never stored.
C7_StoredUnnormalized ==
    phase = "done" =>
        /\ Range(output.ret.value.ip_images) \subseteq PageSrcSet
        /\ Range(output.ret.value.broken_images) \subseteq PageSrcSet
        /\ Range(output.ret.value.css_ip_urls) \subseteq {Strip(c) : c \in PageCaptureSet}
        /\ Range(output.ret.value.css_broken_urls) \subseteq {Strip(c) : c \in PageCaptureSet}

\* a broken root-relative image and a padded stylesheet reference were both stored
C7_Witness ==
    /\ phase = "done"
    /\ \E s \in Range(output.ret.value.broken_images) : probe_url(s) # s
    /\ \E c \in PageCaptureSet : Strip(c) # c /\ Strip(c) \in Range(output.ret.value.css_broken_urls)

\* a probe outcome that makes the reference broken
HeadBroken(head) ==
    \/ head.exc = "RequestException"
    \/ head.exc = "none" /\ head.status_code >= 400

\* a probe outcome that is an exception other than a RequestException
HeadRaises(head) == head.exc \notin {"none", "RequestException"}

HoldsTargetIp(ref) == \E k \in 1..Len(ref) : ref[k] = "3.23.206.196"

\* the scan of a stylesheet fails: its fetch fails, or a probe made for it raises
FileFails(css) ==
    \/ RaiseForStatus(css.get) # "none"
    \/ \E j \in 1..Len(css.matches) :
           ~NonImage(css.matches[j].capture) /\ HeadRaises(css.matches[j].head)

\* the references of a stylesheet that hold the target IP, in order
FileFlagged(css) ==
    LET hit == SelectSeq(css.matches, LAMBDA m : HoldsTargetIp(m.capture))
    IN  [j \in 1..Len(hit) |-> Strip(hit[j].capture)]

\* the image references of a stylesheet whose probe fails, in order
FileBroken(css) ==
    LET hit == SelectSeq(css.matches,
                         LAMBDA m : ~NonImage(m.capture) /\ HeadBroken(m.head))
    IN  [j \in 1..Len(hit) |-> Strip(hit[j].capture)]

\* the findings of the first n stylesheets fetched, a failed one giving none
FlaggedOfFiles(n) ==
    LET f[k \in 0..n] ==
            IF k = 0 THEN << >>
            ELSE f[k - 1] \o (IF FileFails(input.w.css[k]) THEN << >>
                              ELSE FileFlagged(input.w.css[k]))
    IN  f[n]

BrokenOfFiles(n) ==
    LET f[k \in 0..n] ==
            IF k = 0 THEN << >>
            ELSE f[k - 1] \o (IF FileFails(input.w.css[k]) THEN << >>
                              ELSE FileBroken(input.w.css[k]))
    IN  f[n]

\* the srcs of the page's images that hold the target IP, in document order
ImgsFlagged ==
    LET hit == SelectSeq(input.w.imgs, LAMBDA im : HoldsTargetIp(im.src))
    IN  [j \in 1..Len(hit) |-> hit[j].src]

\* the srcs of the page's images whose probe fails, in document order
ImgsBroken ==
    LET hit == SelectSeq(input.w.imgs, LAMBDA im : HeadBroken(im.head))
    IN  [j \in 1..Len(hit) |-> hit[j].src]

\* the page is fetched and parsed and no probe of an image raises
ImagesScanned ==
    /\ RaiseForStatus(input.w.get) = "none"
    /\ \A i \in 1..Len(input.w.imgs) : ~HeadRaises(input.w.imgs[i].head)

\* C11: when fetching or scanning one stylesheet fails, check_css_file gives
\* empty lists for that file without raising; the page's result keeps status
\* 'success' and the findings of its images, and the page's other stylesheets
\* are still scanned.
C11_CssFailureIsLocal ==
    (phase = "done" /\ ImagesScanned) =>
        /\ output.ret.exc = "none"
        /\ output.ret.value.status = "success"
        /\ output.ret.value.ip_images = ImgsFlagged
        /\ output.ret.value.broken_images = ImgsBroken
        /\ output.ret.value.css_files_checked <= Len(input.w.css)
        /\ output.ret.value.css_ip_urls = FlaggedOfFiles(output.ret.value.css_files_checked)
        /\ output.ret.value.css_broken_urls = BrokenOfFiles(output.ret.value.css_files_checked)

\* the first stylesheet failed after one of its references had been flagged, the
\* second one was scanned, and the findings of the images were kept
C11_Witness ==
    /\ phase = "done"
    /\ output.ret.value.status = "success"
    /\ output.ret.value.css_files_checked = 2
    /\ FileFails(input.w.css[1])
    /\ FileFlagged(input.w.css[1]) # << >>
    /\ ~FileFails(input.w.css[2])
    /\ output.ret.value.css_broken_urls = FileBroken(input.w.css[2])
    /\ output.ret.value.css_broken_urls # << >>
    /\ output.ret.value.broken_images # << >>

\* an error result carries no counts and no findings
ErrorResultIsBlank(r) ==
    /\ r.total_images = 0
    /\ r.css_files_checked = 0
    /\ r.ip_images = << >>
    /\ r.broken_images = << >>
    /\ r.css_ip_urls = << >>
    /\ r.css_broken_urls = << >>

\* C12: every result check_page returns with status 'error' has
\* total_images = 0, css_files_checked = 0, four empty finding lists and a
\* non-empty error detail string, also when images had been flagged before.
C12_ErrorResultBlankWithDetail ==
    (phase = "done" /\ output.ret.value.status = "error") =>
        /\ ErrorResultIsBlank(output.ret.value)
        /\ ~output.ret.value.error.is_none
        /\ output.ret.value.error.str # EmptyStr

\* C12 (what does hold): an error result has zero counts, four empty finding
\* lists and, as error detail, the string str(e) of the exception caught, never
\* None: non-empty when the page answered 4xx or 5xx, empty only when the
\* exception caught carries no message.
C12_ErrorResultBlank ==
    (phase = "done" /\ output.ret.value.status = "error") =>
        /\ ErrorResultIsBlank(output.ret.value)
        /\ ~output.ret.value.error.is_none
        /\ (input.w.get.exc = "none" /\ input.w.get.status_code >= 400)
           => output.ret.value.error.str # EmptyStr
        /\ output.ret.value.error.str = EmptyStr
           => \/ input.w.get.exc = "BareException"
              \/ \E i \in 1..Len(input.w.imgs) : input.w.imgs[i].head.exc = "BareException"

\* a probe raised after an image had been flagged and found broken: the result
\* is an error result that holds none of it
C12_Witness ==
    /\ phase = "done"
    /\ output.ret.value.status = "error"
    /\ Len(input.w.imgs) = 2
    /\ HoldsTargetIp(input.w.imgs[1].src)
    /\ HeadBroken(input.w.imgs[1].head)
    /\ HeadRaises(input.w.imgs[2].head)
    /\ ErrorResultIsBlank(output.ret.value)
    /\ output.ret.value.error.str # EmptyStr

-----------------------------------------------------------------------------
(* Spec: one invocation of lambda_handler *)

LocalImg == <<"/", "img", "/", "a", ".png">>

IpImg == <<"http:", "/", "/", "3.23.206.196", "/", "d", ".png">>

LocalCssHref == <<"/", "css", "/", "main", ".css">>

\* a stylesheet that holds one font reference
CssClean ==
    [get     |-> HttpResponse(200),
     matches |-> << [capture |-> <<"fonts", "/", "y", ".woff">>, head |-> HttpResponse(200)] >>]

\* What the collaborators may answer during the scan of one page
HandlerPages ==
    { \* one reachable image, one clean stylesheet
      [get |-> HttpResponse(200),
       imgs |-> << [src |-> LocalImg, head |-> HttpResponse(200)] >>,
       hrefs |-> <<LocalCssHref>>, css |-> <<CssClean>>],
      \* two unreachable images
      [get |-> HttpResponse(200),
       imgs |-> << [src |-> LocalImg, head |-> HttpResponse(404)],
                   [src |-> EmptyStr, head |-> HttpRaises("RequestException")] >>,
       hrefs |-> << >>, css |-> << >>],
      \* an unreachable image at the target IP
      [get |-> HttpResponse(200),
       imgs |-> << [src |-> IpImg, head |-> HttpResponse(503)] >>,
       hrefs |-> <<LocalCssHref>>, css |-> <<CssUnreachable>>],
      \* findings in a stylesheet only
      [get |-> HttpResponse(200),
       imgs |-> << >>,
       hrefs |-> <<LocalCssHref>>, css |-> <<CssWithFindings>>],
      \* the page answers 500
      [get |-> HttpResponse(500), imgs |-> << >>, hrefs |-> << >>, css |-> << >>],
      \* a probe raises something that is no RequestException, after a finding
      [get |-> HttpResponse(200),
       imgs |-> << [src |-> IpImg, head |-> HttpResponse(404)],
                   [src |-> LocalImg, head |-> HttpRaises("Exception")] >>,
       hrefs |-> << >>, css |-> << >>] }

SesOutcomes == {"MessageId", "ClientError", "BotoCoreError"}

Init ==
    /\ phase = "start"
    /\ input = Unused
    /\ output = Unused
    /\ HandlerIdle

\* executor.submit(check_page, url) for every url
Submit ==
    /\ phase = "start"
    /\ phase' = "running"
    /\ futures' = [i \in 1..Len(urls_to_check) |-> [state |-> "pending", outcome |-> Unused]]
    /\ UNCHANGED <<input, output, all_results, email, response>>

\* a worker thread runs check_page(urls_to_check[i]) to its end
TaskRun(i) ==
    /\ phase \in {"running", "failed"}
    /\ futures[i].state = "pending"
    /\ \E w \in HandlerPages :
           futures' = [futures EXCEPT ![i] = [state   |-> "done",
                                              outcome |-> check_page(urls_to_check[i], w)]]
    /\ UNCHANGED <<phase, input, output, all_results, email, response>>

\* as_completed yields future i; result = future.result(); all_results.append(result)
Collect(i) ==
    /\ phase = "running"
    /\ futures[i].state = "done"
    /\ futures' = [futures EXCEPT ![i].state = "collected"]
    /\ IF futures[i].outcome.exc = "none"
       THEN /\ all_results' = Append(all_results, futures[i].outcome.value)
            /\ UNCHANGED <<phase, response>>
       ELSE /\ phase' = "failed"
            /\ response' = [response EXCEPT !.raised = "page_task",
                                            !.exc = futures[i].outcome.exc]
            /\ UNCHANGED all_results
    /\ UNCHANGED <<input, output, email>>

\* send_summary_email(all_results), after the with block
SendSummaryEmail ==
    /\ phase = "running"
    /\ loop_finished(futures)
    /\ \E ses \in SesOutcomes :
           LET sent == send_summary_email(all_results, ses)
           IN  /\ email' = [calls   |-> email.calls + sent.calls,
                            subject |-> sent.subject,
                            outcome |-> sent.outcome,
                            summary |-> sent.summary]
               /\ IF sent.exc = "none"
                  THEN /\ phase' = "sent"
                       /\ UNCHANGED response
                  ELSE /\ phase' = "failed"
                       /\ response' = [response EXCEPT !.raised = "handler",
                                                       !.exc = sent.exc]
    /\ UNCHANGED <<input, output, futures, all_results>>

\* return {...}: after the totals, or from the except block once the with block
\* has waited for every task
HandlerReturn ==
    /\ phase \in {"sent", "failed"}
    /\ \A i \in DOMAIN futures : futures[i].state # "pending"
    /\ phase' = "returned"
    /\ response' = [response EXCEPT !.body = IF phase = "sent"
                                             THEN handler_response(all_results)
                                             ELSE handler_error(response.exc)]
    /\ UNCHANGED <<input, output, futures, all_results, email>>

Next ==
    \/ Submit
    \/ \E i \in 1..Len(urls_to_check) : TaskRun(i)
    \/ \E i \in 1..Len(urls_to_check) : Collect(i)
    \/ SendSummaryEmail
    \/ HandlerReturn

Spec == Init /\ [][Next]_vars

\* send_summary_email has been called in this invocation
SummaryCalled == phase \in {"sent", "returned"} \/ response.raised = "handler"

\* C2: send_summary_email is called only after all page tasks have finished, and
\* the collection it receives holds exactly one result per configured page,
\* whatever the interleaving and whichever pages fail.
C2_OneResultPerPage ==
    SummaryCalled =>
        /\ \A i \in DOMAIN futures : futures[i].state = "collected"
        /\ Len(all_results) = Len(PAGES_TO_CHECK)
        /\ \A i \in 1..Len(PAGES_TO_CHECK) :
               Cardinality({j \in 1..Len(all_results) :
                                all_results[j].url = urls_to_check[i]}) = 1

\* the last page submitted failed and was collected first; the first page
\* submitted was scanned all the same and collected last
C2_Witness ==
    /\ SummaryCalled
    /\ Len(all_results) = Len(PAGES_TO_CHECK)
    /\ all_results[1].url = urls_to_check[Len(PAGES_TO_CHECK)]
    /\ all_results[1].status = "error"
    /\ all_results[Len(all_results)].url = urls_to_check[1]
    /\ all_results[Len(all_results)].status = "success"

\* a result with status 'success' and four empty finding lists
CleanResult(r) ==
    /\ r.status = "success"
    /\ r.ip_images = << >>
    /\ r.broken_images = << >>
    /\ r.css_ip_urls = << >>
    /\ r.css_broken_urls = << >>

\* C3: send_summary_email calls the email collaborator zero times when every
\* page result is clean and exactly once otherwise; never more than once.
C3_OneEmailIffIssue ==
    /\ email.calls <= 1
    /\ SummaryCalled =>
           email.calls = IF \A j \in 1..Len(all_results) : CleanResult(all_results[j])
                         THEN 0 ELSE 1

\* the only issue of the run is a failed page, and one email went out
C3_Witness ==
    /\ SummaryCalled
    /\ email.calls = 1
    /\ \E j \in 1..Len(all_results) : all_results[j].status = "error"
    /\ \A j \in 1..Len(all_results) :
           all_results[j].status = "error" \/ CleanResult(all_results[j])

\* the number of items of a category over all page results
ItemsOverAll(field) ==
    LET n[j \in 0..Len(all_results)] ==
            IF j = 0 THEN 0 ELSE n[j - 1] + Len(all_results[j][field])
    IN  n[Len(all_results)]

\* C4: the subject lists exactly the non-empty issue categories, in the order
\* broken images, IP-flagged images, CSS broken URLs, CSS IP-flagged URLs, failed
\* pages, each with the number of items of that category over all page results.
C4_SubjectListsCategories ==
    (SummaryCalled /\ email.calls = 1) =>
        email.subject =
            SelectSeq(<< <<ItemsOverAll("broken_images"), "Broken Images">>,
                         <<ItemsOverAll("ip_images"), "IP-Based Images">>,
                         <<ItemsOverAll("css_broken_urls"), "CSS Broken URLs">>,
                         <<ItemsOverAll("css_ip_urls"), "CSS IP-Based URLs">>,
                         <<Cardinality({j \in 1..Len(all_results) :
                                            all_results[j].status = "error"}),
                           "Failed Pages">> >>,
                      LAMBDA issue : issue[1] > 0)

\* all five categories are listed and one page alone holds several broken images
C4_Witness ==
    /\ SummaryCalled
    /\ email.calls = 1
    /\ Len(email.subject) = 5
    /\ \E j \in 1..Len(all_results) : Len(all_results[j].broken_images) >= 2

\* C9: if the email collaborator fails to deliver the summary, lambda_handler
\* still returns statusCode 200 with status 'COMPLETE'.
C9_FailedEmailStillComplete ==
    (phase = "returned" /\ email.calls = 1 /\ email.outcome # "MessageId") =>
        /\ response.body.statusCode = 200
        /\ response.body.status = "COMPLETE"

\* C10: lambda_handler returns statusCode 200 with status 'COMPLETE' for every
\* combination of page and resource failures, reporting them through
\* pages_failed; statusCode 500 with status 'ERROR' is returned only when an
\* exception is raised in the handler itself, outside the page tasks.
C10_ErrorOnlyFromHandler ==
    phase = "returned" =>
        /\ response.raised # "page_task"
        /\ response.body.statusCode \in {200, 500}
        /\ response.raised = "none" =>
               /\ response.body.statusCode = 200
               /\ response.body.status = "COMPLETE"
               /\ response.body.pages_checked = Len(PAGES_TO_CHECK)
               /\ response.body.pages_failed =
                      Cardinality({i \in DOMAIN futures :
                                       futures[i].outcome.value.status = "error"})
        /\ response.body.statusCode = 500 =>
               /\ response.body.status = "ERROR"
               /\ response.raised = "handler"

\* every page failed, one of them on an exception that is no RequestException,
\* and the invocation still completed
C10_Witness ==
    /\ phase = "returned"
    /\ response.body.statusCode = 200
    /\ response.body.status = "COMPLETE"
    /\ response.body.pages_failed = Len(PAGES_TO_CHECK)
    /\ \E j \in 1..Len(all_results) : all_results[j].error = PyStr(ExcStr("Exception"))

\* the count the subject gives for a category, 0 when it does not list it
SubjectCount(label) ==
    IF \E k \in 1..Len(email.subject) : email.subject[k][2] = label
    THEN (CHOOSE issue \in Range(email.subject) : issue[2] = label)[1]
    ELSE 0

\* the number of items of a category over the pages, taken in configuration order
ItemsOverPages(field) ==
    LET n[i \in 0..Len(PAGES_TO_CHECK)] ==
            IF i = 0 THEN 0 ELSE n[i - 1] + Len(futures[i].outcome.value[field])
    IN  n[Len(PAGES_TO_CHECK)]

\* C15: the aggregate counts of the response body (summed by lambda_handler
\* over all results) equal the counts of the email subject and summary (summed
\* by send_summary_email over the results with status 'success'), pages_failed
\* equals the email's failed-page count, and none of them depends on the order
\* in which the pages completed.
C15_ResponseMatchesEmail ==
    (phase = "returned" /\ response.body.statusCode = 200) =>
        /\ response.body.total_broken_images = ItemsOverPages("broken_images")
        /\ response.body.total_ip_images = ItemsOverPages("ip_images")
        /\ response.body.total_css_broken_urls = ItemsOverPages("css_broken_urls")
        /\ response.body.total_css_ip_urls = ItemsOverPages("css_ip_urls")
        /\ response.body.total_broken_images = SubjectCount("Broken Images")
        /\ response.body.total_ip_images = SubjectCount("IP-Based Images")
        /\ response.body.total_css_broken_urls = SubjectCount("CSS Broken URLs")
        /\ response.body.total_css_ip_urls = SubjectCount("CSS IP-Based URLs")
        /\ response.body.pages_failed = SubjectCount("Failed Pages")
        /\ response.body.total_broken_images = email.summary.total_broken
        /\ response.body.total_ip_images = email.summary.total_ip
        /\ response.body.total_css_broken_urls = email.summary.total_css_broken
        /\ response.body.total_css_ip_urls = email.summary.total_css_ip
        /\ response.body.pages_failed = email.summary.failed_pages
        /\ email.calls = 1 => response.body.pages_checked = email.summary.total_pages

\* a run with failed pages and findings of every kind, whose pages completed in
\* another order than they were submitted
C15_Witness ==
    /\ phase = "returned"
    /\ response.body.statusCode = 200
    /\ email.calls = 1
    /\ response.body.pages_failed >= 1
    /\ response.body.total_broken_images >= 2
    /\ response.body.total_ip_images >= 1
    /\ response.body.total_css_ip_urls >= 1
    /\ all_results[1].url # urls_to_check[1]
    /\ all_results[1].status = "error"

=============================================================================
